---- MODULE Spec2Model ----
(***************************************************************************)
(* Model of the vaulta-geyser-indexer ingestion pipeline:                  *)
(*   process_update -> update channel -> batcher loop -> process_batch     *)
(*   -> {Database::batch_upsert_vault_states, RedisCache::batch_set}       *)
(* and of the cache-aside reader Indexer::get_vault_state.                 *)
(*                                                                         *)
(* Scaling.  A byte holds a digit in 0..Radix-1 instead of 0..255, so that *)
(* an 8-byte little-endian u64 stays inside the checker's integers; the    *)
(* byte offsets (32, 40) and the u64 width in bytes (8) are the source's.  *)
(* Time is counted in half seconds so that the truncation                  *)
(* of whole_seconds() is visible.                                          *)
(***************************************************************************)
EXTENDS Integers, Sequences, FiniteSets, TLC

VARIABLES
    cacheEnabled,   \* Indexer.cache is Some (config.enable_cache)
    chan,           \* messages buffered in the unbounded mpsc channel
    closed,         \* every sender of the channel has been dropped
    calls,          \* number of process_update calls so far (the source stream's write counter)
    puRes,          \* result of the last process_update call
    batch,          \* the batcher task's `batch` Vec
    bpc,            \* position of the batcher task
    branch,         \* the select! branch the loop took last
    vault_states,   \* process_batch's local `vault_states` while it is suspended on I/O
    handed,         \* the batches process_batch has been called with, in call order
    flushRes,       \* what the last process_batch call returned; the loop logs an error iff "Err"
    sink,           \* committed rows of table vault_states, by primary key
    cache,          \* redis keyspace: key -> stored string, or absent
    now,            \* the wall clock's last reading (OffsetDateTime::now_utc), in half seconds
    rpc,            \* position of the reader inside get_vault_state
    raddr,          \* the reader's vault_address argument
    rrow,           \* the reader's local `state` read from the database, None outside the call
    rres,           \* result of the last get_vault_state call
    rqueries,       \* Database::get_vault_state calls made by the current (or last) get_vault_state call
    indexer,        \* GeyserIndexerPlugin.indexer holds Some(Arc<Indexer>)
    ipc,            \* position of the initialization task spawned by on_load
    onLoadRes,      \* what on_load returned to the host
    uaOutcome,      \* which branch the last update_account call took
    logs,           \* the log lines the plugin has written
    dbCalls,        \* the upserts a client of Database has made directly, in call order
    decIn,          \* the `update` a direct parse_vault_state call was given, None without such a call
    decOut          \* what that call returned

vars == <<cacheEnabled, chan, closed, calls, puRes, batch, bpc, branch, vault_states,
          handed, flushRes, sink, cache, now, rpc, raddr, rrow, rres, rqueries,
          indexer, ipc, onLoadRes, uaOutcome, logs, dbCalls, decIn, decOut>>

batcherVars == <<batch, bpc, branch, vault_states, handed, flushRes>>
readerVars  == <<rpc, raddr, rrow, rres, rqueries>>
producerVars == <<chan, closed, calls, puRes>>
pluginVars == <<indexer, ipc, onLoadRes, uaOutcome, logs>>
hostVars == <<indexer, ipc, onLoadRes, uaOutcome, logs, dbCalls, decIn, decOut>>

----------------------------------------------------------------------------
(* Bounds of the model and configuration values                             *)

batch_size  == 2    \* Indexer.batch_size (config.batch_size)
ttl_seconds == 1    \* RedisCache.ttl_seconds (config.redis.ttl_seconds)
Radix       == 2    \* number of values of one byte in the model

OwnerLen    == 32   \* data[0..32]
BalanceEnd  == 40   \* data[32..40]
U64Bytes    == 8    \* size of u64

\* process_update calls explored: enough to fill one batch and start the next
MaxCalls == batch_size + 1

\* the clock counts half seconds; it is explored until every entry written
\* at time 0 is past its ttl by more than half a second
MaxTime == 2 * ttl_seconds + 1

----------------------------------------------------------------------------
(* Values                                                                   *)

None == <<>>
Some(x) == <<x>>
IsSome(o) == o # <<>>
Unwrap(o) == o[1]

\* A Pubkey is 32 bytes; the k-th sample key carries k in its first bytes.
Pubkey(k) == [i \in 1..OwnerLen |-> IF i <= 3 THEN (k \div (Radix ^ (i - 1))) % Radix ELSE 0]

VaultProgram == Pubkey(1)    \* the tracked program id
OtherProgram == Pubkey(2)
VaultA       == Pubkey(3)
VaultB       == Pubkey(4)
Authority    == Pubkey(5)
Addrs        == {VaultA, VaultB}

U64Mod == Radix ^ U64Bytes

to_le_bytes(n) == [i \in 1..U64Bytes |-> (n \div (Radix ^ (i - 1))) % Radix]

\* the eight bytes read most significant first
RECURSIVE from_be_bytes(_)
from_be_bytes(bytes) ==
    IF bytes = <<>> THEN 0
    ELSE Head(bytes) * Radix ^ (Len(bytes) - 1) + from_be_bytes(Tail(bytes))

RECURSIVE from_le_bytes(_)
from_le_bytes(bytes) ==
    IF bytes = <<>> THEN 0
    ELSE Head(bytes) + Radix * from_le_bytes(Tail(bytes))

\* `x as i64` and `y as u64` at the model's u64 width
as_i64(x) == IF 2 * x >= U64Mod THEN x - U64Mod ELSE x
as_u64(y) == y % U64Mod

\* Pubkey::to_string / str::parse::<Pubkey> (base58, one-to-one)
to_string(pk) == <<"b58", pk>>
parse_pubkey(s) == s[2]

\* format!("vault:{}", address)
cache_key(addrStr) == <<"vault:", addrStr>>

AddrStrs == {to_string(a) : a \in Addrs}
CacheKeys == {cache_key(s) : s \in AddrStrs}

\* serde_json::to_string / from_str
to_json(v) == <<"json", v>>
from_json(s) == s[2]

\* account data samples: too short, owner only, owner + balance
DataShort    == [i \in 1..(OwnerLen - 1) |-> 0]
DataOwner    == Authority
DataBalance  == Authority \o to_le_bytes(U64Mod - 1)

AccountUpdate(pk, owner, data, slot, wv) ==
    [pubkey |-> pk, lamports |-> 7, owner |-> owner, data |-> data,
     write_version |-> wv, slot |-> slot]

\* the updates the host may deliver as its wv-th write: an account of another
\* program, two writes of vault A (the later slot first in the list, then the
\* earlier one) and an undecodable write of vault B
Updates(wv) ==
    { AccountUpdate(VaultA, OtherProgram, DataBalance, 10, wv),
      AccountUpdate(VaultA, VaultProgram, DataBalance, 10, wv),
      AccountUpdate(VaultA, VaultProgram, DataOwner, 5, wv),
      AccountUpdate(VaultB, VaultProgram, DataShort, 10, wv) }

\* the writes explored together with the reader: the two decodable writes of
\* vault A (vault B then never has a row)
VaultUpdates(wv) ==
    { AccountUpdate(VaultA, VaultProgram, DataBalance, 10, wv),
      AccountUpdate(VaultA, VaultProgram, DataOwner, 5, wv) }

----------------------------------------------------------------------------
(* Indexer::parse_vault_state                                               *)

parse_vault_state(update, t) ==
    IF Len(update.data) < OwnerLen THEN None
    ELSE Some([vault_address |-> update.pubkey,
               owner |-> SubSeq(update.data, 1, OwnerLen),
               balance |-> IF Len(update.data) >= BalanceEnd
                           THEN from_le_bytes(SubSeq(update.data, OwnerLen + 1, BalanceEnd))
                           ELSE update.lamports,
               assets |-> <<>>,
               permissions |-> <<>>,
               last_updated |-> t,
               slot |-> update.slot,
               write_version |-> update.write_version])

\* a decode loop that gives up at the first undecodable update
RECURSIVE DecodeAll_stopAtNone(_, _)
DecodeAll_stopAtNone(updates, t) ==
    IF updates = <<>> THEN <<>>
    ELSE LET s == parse_vault_state(Head(updates), t)
         IN IF IsSome(s) THEN <<Unwrap(s)>> \o DecodeAll_stopAtNone(Tail(updates), t) ELSE <<>>

\* the decode loop of process_batch: the states of the decodable updates, in order
RECURSIVE DecodeAll(_, _)
DecodeAll(updates, t) ==
    IF updates = <<>> THEN <<>>
    ELSE LET s == parse_vault_state(Head(updates), t)
         IN (IF IsSome(s) THEN <<Unwrap(s)>> ELSE <<>>) \o DecodeAll(Tail(updates), t)

----------------------------------------------------------------------------
(* Database                                                                 *)

\* the bound parameters of the INSERT ... ON CONFLICT DO UPDATE statement
RowOf(state) ==
    [vault_address |-> to_string(state.vault_address),
     owner |-> to_string(state.owner),
     balance |-> as_i64(state.balance),
     assets |-> to_json(state.assets),
     permissions |-> to_json(state.permissions),
     last_updated |-> state.last_updated,
     slot |-> as_i64(state.slot),
     write_version |-> as_i64(state.write_version)]

\* an upsert whose conflict branch adds the incoming balance to the stored one
UpsertRow_accumulate(rows, state) ==
    LET key == to_string(state.vault_address)
    IN IF IsSome(rows[key])
       THEN [rows EXCEPT ![key] =
               Some([RowOf(state) EXCEPT !.balance =
                       as_i64(as_u64(Unwrap(rows[key]).balance + RowOf(state).balance))])]
       ELSE [rows EXCEPT ![key] = Some(RowOf(state))]

\* an upsert with an ordering guard: the stored row is overwritten only by a
\* state whose (slot, write_version) is greater
UpsertRow_guarded(rows, state) ==
    LET key == to_string(state.vault_address)
        new == RowOf(state)
    IN IF /\ IsSome(rows[key])
          /\ \/ Unwrap(rows[key]).slot > new.slot
             \/ /\ Unwrap(rows[key]).slot = new.slot
                /\ Unwrap(rows[key]).write_version >= new.write_version
       THEN rows
       ELSE [rows EXCEPT ![key] = Some(new)]

\* one upsert statement applied to a table
UpsertRow(rows, state) ==
    [rows EXCEPT ![to_string(state.vault_address)] = Some(RowOf(state))]

RECURSIVE UpsertPrefix(_, _, _)
UpsertPrefix(rows, states, n) ==
    IF n = 0 \/ states = <<>> THEN rows
    ELSE UpsertPrefix(UpsertRow(rows, Head(states)), Tail(states), n - 1)

\* a batch_upsert_vault_states that reports success although nothing was committed
batch_upsert_vault_states_swallow(rows, states, failAt) ==
    IF failAt = 0
    THEN [rows |-> UpsertPrefix(rows, states, Len(states)), res |-> "Ok"]
    ELSE [rows |-> rows, res |-> "Ok"]

\* the batch written statement by statement on the pool, without a transaction
batch_upsert_vault_states_autocommit(rows, states, failAt) ==
    IF failAt = 0
    THEN [rows |-> UpsertPrefix(rows, states, Len(states)), res |-> "Ok"]
    ELSE [rows |-> UpsertPrefix(rows, states, failAt - 1), res |-> "Err"]

\* Database::batch_upsert_vault_states.  failAt = 0: every statement and the
\* commit succeed.  failAt = k in 1..Len(states): serialization or execution of
\* the k-th record fails, the function returns early and the dropped
\* transaction rolls back.  failAt = Len(states) + 1: begin or commit fails.
batch_upsert_vault_states(rows, states, failAt) ==
    IF failAt = 0
    THEN [rows |-> UpsertPrefix(rows, states, Len(states)), res |-> "Ok"]
    ELSE [rows |-> rows, res |-> "Err"]

\* Database::upsert_vault_state: one statement executed on the pool
upsert_vault_state(rows, state, ok) ==
    IF ok
    THEN [rows |-> UpsertRow(rows, state), res |-> "Ok"]
    ELSE [rows |-> rows, res |-> "Err"]

\* Database::get_vault_state on a reachable database
db_get_vault_state(rows, addrStr) ==
    IF IsSome(rows[addrStr])
    THEN LET row == Unwrap(rows[addrStr])
         IN Some([vault_address |-> parse_pubkey(row.vault_address),
                  owner |-> parse_pubkey(row.owner),
                  balance |-> as_u64(row.balance),
                  assets |-> from_json(row.assets),
                  permissions |-> from_json(row.permissions),
                  last_updated |-> row.last_updated,
                  slot |-> as_u64(row.slot),
                  write_version |-> as_u64(row.write_version)])
    ELSE None

----------------------------------------------------------------------------
(* RedisCache                                                               *)

CacheEntry(state, t) ==
    [vault_state |-> state, cached_at |-> t, ttl_seconds |-> ttl_seconds]

\* a SETEX under a key RedisCache::get never reads (the "vault:" prefix left
\* out): the keys that get reads stay as they were
SetEx_otherKey(keys, state, t) == keys

\* a write that keeps the entry a key already holds (SET .. NX)
SetEx_ifAbsent(keys, state, t) ==
    IF IsSome(keys[cache_key(to_string(state.vault_address))])
    THEN keys
    ELSE [keys EXCEPT ![cache_key(to_string(state.vault_address))] =
             Some(to_json(CacheEntry(state, t)))]

\* one SETEX of RedisCache::set / batch_set
SetEx(keys, state, t) ==
    [keys EXCEPT ![cache_key(to_string(state.vault_address))] =
        Some(to_json(CacheEntry(state, t)))]

RECURSIVE SetPrefix(_, _, _, _)
SetPrefix(keys, states, t, n) ==
    IF n = 0 \/ states = <<>> THEN keys
    ELSE SetPrefix(SetEx(keys, Head(states), t), Tail(states), t, n - 1)

\* a batch_set that leaves the last state of the batch out of the pipeline
batch_set_dropsLast(keys, states, t, ok, applied) ==
    IF ok
    THEN [keys |-> SetPrefix(keys, states, t, Len(states) - 1), res |-> "Ok"]
    ELSE [keys |-> SetPrefix(keys, states, t, applied), res |-> "Err"]

\* RedisCache::batch_set.  applied = Len(states) and ok: the pipeline ran.
\* Not ok: the connection or the pipeline failed after the server had
\* executed the first `applied` commands (the pipeline is not atomic).
batch_set(keys, states, t, ok, applied) ==
    IF ok
    THEN [keys |-> SetPrefix(keys, states, t, Len(states)), res |-> "Ok"]
    ELSE [keys |-> SetPrefix(keys, states, t, applied), res |-> "Err"]

\* (now - entry.cached_at).whole_seconds() as u64
Age(entry, t) ==
    LET d == t - entry.cached_at
        whole == IF d >= 0 THEN d \div 2 ELSE -((-d) \div 2)
    IN whole % U64Mod

\* the expiry test written with <= instead of <
Fresh_le(entry, t) == Age(entry, t) <= entry.ttl_seconds

\* the expiry test of RedisCache::get
Fresh(entry, t) == Age(entry, t) < entry.ttl_seconds

----------------------------------------------------------------------------
(* Initial state: on_load has returned, the initialization task has built   *)
(* the Indexer (Indexer::new has returned, the batcher task is spawned) and *)
(* stored it in the plugin                                                  *)

Init ==
    /\ cacheEnabled \in BOOLEAN
    /\ chan = <<>>
    /\ closed = FALSE
    /\ calls = 0
    /\ puRes = "none"
    /\ batch = <<>>
    /\ bpc = "select"
    /\ branch = "none"
    /\ vault_states = <<>>
    /\ handed = <<>>
    /\ flushRes = "none"
    /\ sink = [k \in AddrStrs |-> None]
    /\ cache = [k \in CacheKeys |-> None]
    /\ now = 0
    /\ rpc = "idle"
    /\ raddr = None
    /\ rrow = None
    /\ rres = [kind |-> "none"]
    /\ rqueries = 0
    /\ indexer = TRUE
    /\ ipc = "done"
    /\ onLoadRes = "Ok"
    /\ uaOutcome = "none"
    /\ logs = {"Loading Vaulta Geyser Indexer plugin...",
               "Vaulta Geyser Indexer initialized successfully"}
    /\ dbCalls = <<>>
    /\ decIn = None
    /\ decOut = [kind |-> "none"]

----------------------------------------------------------------------------
(* Producer                                                                 *)

\* process_update without the owner test
process_update_unfiltered(update) ==
    /\ ~closed
    /\ calls' = calls + 1
    /\ puRes' = "Ok"
    /\ chan' = Append(chan, update)
    /\ UNCHANGED <<closed, cacheEnabled, sink, cache, now>>
    /\ UNCHANGED batcherVars
    /\ UNCHANGED readerVars

\* process_update on a channel that hands the newest message over first
process_update_lifo(update) ==
    /\ ~closed
    /\ calls' = calls + 1
    /\ puRes' = "Ok"
    /\ chan' = IF update.owner # VaultProgram THEN chan ELSE <<update>> \o chan
    /\ UNCHANGED <<closed, cacheEnabled, sink, cache, now>>
    /\ UNCHANGED batcherVars
    /\ UNCHANGED readerVars

\* Indexer::process_update
process_update(update) ==
    /\ ~closed
    /\ calls' = calls + 1
    /\ puRes' = "Ok"
    /\ chan' = IF update.owner # VaultProgram THEN chan ELSE Append(chan, update)
    /\ UNCHANGED <<closed, cacheEnabled, sink, cache, now>>
    /\ UNCHANGED batcherVars
    /\ UNCHANGED readerVars

\* the last Arc<Indexer> is dropped (on_unload): the channel's only sender goes away
DropIndexer ==
    /\ ~closed
    /\ rpc = "idle"
    /\ closed' = TRUE
    /\ UNCHANGED <<chan, calls, puRes, cacheEnabled, hostVars, sink, cache, now>>
    /\ UNCHANGED batcherVars
    /\ UNCHANGED readerVars

----------------------------------------------------------------------------
(* Clock                                                                    *)

\* what OffsetDateTime::now_utc() may return: the clock does not run backwards
\* and its value matters only where it is read
ClockReadings == now..MaxTime

----------------------------------------------------------------------------
(* Batcher task                                                             *)

\* the call of process_batch up to its first suspension: decode, return Ok
\* at once when nothing decoded, else go on to the database write
CallProcessBatch(updates) ==
    /\ handed' = Append(handed, updates)
    /\ IF DecodeAll(updates, now) = <<>>
       THEN /\ batch' = <<>>
            /\ bpc' = "select"
            /\ vault_states' = <<>>
            /\ flushRes' = "Ok"
            /\ UNCHANGED now
       ELSE \E t \in ClockReadings :
            /\ now' = t
            /\ batch' = updates
            /\ bpc' = "db"
            /\ vault_states' = DecodeAll(updates, t)
            /\ UNCHANGED flushRes

\* a size test that lets the batch grow to twice batch_size
BatchFull_double(pushed) == Len(pushed) >= 2 * batch_size

\* the size test written with > instead of >=
BatchFull_gt(pushed) == Len(pushed) > batch_size

\* `batch.len() >= batch_size` after the push
BatchFull(pushed) == Len(pushed) >= batch_size

\* a recv branch that also runs while process_batch is suspended on I/O and
\* pushes onto the batch being flushed
BatcherRecv_duringFlush ==
    /\ bpc \in {"select", "db", "cache"}
    /\ chan # <<>>
    /\ chan' = Tail(chan)
    /\ branch' = "recv"
    /\ LET pushed == Append(batch, Head(chan))
       IN IF bpc = "select" /\ Len(pushed) >= batch_size
          THEN CallProcessBatch(pushed)
          ELSE /\ batch' = pushed
               /\ UNCHANGED <<bpc, vault_states, handed, flushRes, now>>
    /\ UNCHANGED <<closed, calls, puRes, cacheEnabled, hostVars, sink, cache>>
    /\ UNCHANGED readerVars

\* select! branch `update = rx.recv()` with Some(update)
BatcherRecv ==
    /\ bpc = "select"
    /\ chan # <<>>
    /\ chan' = Tail(chan)
    /\ branch' = "recv"
    /\ LET pushed == Append(batch, Head(chan))
       IN IF BatchFull(pushed)
          THEN CallProcessBatch(pushed)
          ELSE /\ batch' = pushed
               /\ UNCHANGED <<bpc, vault_states, handed, flushRes, now>>
    /\ UNCHANGED <<closed, calls, puRes, cacheEnabled, hostVars, sink, cache>>
    /\ UNCHANGED readerVars

\* select! branch `update = rx.recv()` with None: channel closed and drained.
\* The loop breaks; `batch` keeps what it held when the task ended.
BatcherClosed ==
    /\ bpc = "select"
    /\ closed
    /\ chan = <<>>
    /\ bpc' = "done"
    /\ branch' = "closed"
    /\ UNCHANGED <<batch, vault_states, handed, flushRes>>
    /\ UNCHANGED <<producerVars, cacheEnabled, hostVars, sink, cache, now>>
    /\ UNCHANGED readerVars

\* a tick that never flushes
TickFlushes_never(b) == FALSE

\* a tick that flushes only a full batch
TickFlushes_whenFull(b) == Len(b) >= batch_size

\* `!batch.is_empty()` on a tick
TickFlushes(b) == b # <<>>

\* a tick branch that ends the loop when it finds the batch empty
BatcherTick_idleExit ==
    /\ bpc = "select"
    /\ branch' = "tick"
    /\ IF TickFlushes(batch)
       THEN CallProcessBatch(batch)
       ELSE /\ bpc' = "done"
            /\ UNCHANGED <<batch, vault_states, handed, flushRes, now>>
    /\ UNCHANGED <<producerVars, cacheEnabled, hostVars, sink, cache>>
    /\ UNCHANGED readerVars

\* select! branch `_ = flush_interval.tick()`
BatcherTick ==
    /\ bpc = "select"
    /\ branch' = "tick"
    /\ IF TickFlushes(batch)
       THEN CallProcessBatch(batch)
       ELSE UNCHANGED <<batch, bpc, vault_states, handed, flushRes, now>>
    /\ UNCHANGED <<producerVars, cacheEnabled, hostVars, sink, cache>>
    /\ UNCHANGED readerVars

\* a loop that keeps the batch of a failed flush for the next trigger
AfterProcessBatch_retry(res) ==
    /\ flushRes' = res
    /\ batch' = IF res = "Err" THEN batch ELSE <<>>
    /\ vault_states' = <<>>
    /\ bpc' = "select"

\* a loop that lets the error of process_batch end the task
AfterProcessBatch_fatal(res) ==
    /\ flushRes' = res
    /\ batch' = <<>>
    /\ vault_states' = <<>>
    /\ bpc' = IF res = "Err" THEN "done" ELSE "select"

\* the loop after process_batch returned: log the error if any, batch.clear()
AfterProcessBatch(res) ==
    /\ flushRes' = res
    /\ batch' = <<>>
    /\ vault_states' = <<>>
    /\ bpc' = "select"

\* process_batch resumes: database.batch_upsert_vault_states(&vault_states).await?
FlushDatabase ==
    /\ bpc = "db"
    /\ \E failAt \in 0..(Len(vault_states) + 1) :
         LET r == batch_upsert_vault_states(sink, vault_states, failAt)
         IN /\ sink' = r.rows
            /\ IF r.res = "Err"
               THEN AfterProcessBatch("Err")
               ELSE IF cacheEnabled
               THEN /\ bpc' = "cache"
                    /\ UNCHANGED <<flushRes, batch, vault_states>>
               ELSE AfterProcessBatch("Ok")
    /\ UNCHANGED <<handed, branch, producerVars, cacheEnabled, hostVars, cache, now>>
    /\ UNCHANGED readerVars

\* process_batch resumes: cache.batch_set(&vault_states).await?
FlushCache ==
    /\ bpc = "cache"
    /\ \E ok \in BOOLEAN, applied \in 0..Len(vault_states), t \in ClockReadings :
         /\ (ok => applied = Len(vault_states))
         /\ now' = t
         /\ LET r == batch_set(cache, vault_states, t, ok, applied)
            IN /\ cache' = r.keys
               /\ AfterProcessBatch(r.res)
    /\ UNCHANGED <<handed, branch, producerVars, cacheEnabled, hostVars, sink>>
    /\ UNCHANGED readerVars

----------------------------------------------------------------------------
(* Reader: Indexer::get_vault_state, one step per awaited backend operation *)

Ok(v) == [kind |-> "Ok", val |-> v]
Err(op) == [kind |-> "Err", op |-> op]

\* get_vault_state returns: its locals go out of scope
ReadReturn(res) ==
    /\ rres' = res
    /\ rrow' = None
    /\ rpc' = "idle"

\* the call, up to the first await
ReadCall(addrStr) ==
    /\ rpc = "idle"
    /\ ~closed
    /\ raddr' = Some(addrStr)
    /\ rrow' = None
    /\ rres' = [kind |-> "none"]
    /\ rqueries' = 0
    /\ rpc' = IF cacheEnabled THEN "cache_get" ELSE "db_get"
    /\ UNCHANGED <<producerVars, cacheEnabled, hostVars, sink, cache, now>>
    /\ UNCHANGED batcherVars

\* RedisCache::get: connection, GET, parse and expiry test
ReadCacheGet ==
    /\ rpc = "cache_get"
    /\ \E ok \in BOOLEAN, t \in ClockReadings :
         LET data == cache[cache_key(Unwrap(raddr))]
         IN IF ~ok
            THEN /\ ReadReturn(Err("cache_get"))
                 /\ UNCHANGED now
            ELSE IF ~IsSome(data)
            THEN /\ rpc' = "db_get"
                 /\ UNCHANGED <<rres, rrow, now>>
            ELSE /\ now' = t
                 /\ IF Fresh(from_json(Unwrap(data)), t)
                    THEN ReadReturn(Ok(Some(from_json(Unwrap(data)).vault_state)))
                    ELSE /\ rpc' = "cache_del"
                         /\ UNCHANGED <<rres, rrow>>
    /\ UNCHANGED <<raddr, rqueries, producerVars, cacheEnabled, hostVars, sink, cache>>
    /\ UNCHANGED batcherVars

\* RedisCache::get: DEL of the expired key, then Ok(None)
ReadCacheDel ==
    /\ rpc = "cache_del"
    /\ \E ok \in BOOLEAN :
         IF ok
         THEN /\ cache' = [cache EXCEPT ![cache_key(Unwrap(raddr))] = None]
              /\ rpc' = "db_get"
              /\ UNCHANGED <<rres, rrow>>
         ELSE /\ ReadReturn(Err("cache_get"))
              /\ UNCHANGED cache
    /\ UNCHANGED <<raddr, rqueries, producerVars, cacheEnabled, hostVars, sink, now>>
    /\ UNCHANGED batcherVars

\* self.database.get_vault_state(vault_address).await?
ReadDbGet ==
    /\ rpc = "db_get"
    /\ rqueries' = rqueries + 1
    /\ \E ok \in BOOLEAN :
         IF ~ok
         THEN ReadReturn(Err("db_get"))
         ELSE LET state == db_get_vault_state(sink, Unwrap(raddr))
              IN IF IsSome(state) /\ cacheEnabled
                 THEN /\ rrow' = state
                      /\ rpc' = "cache_set"
                      /\ UNCHANGED rres
                 ELSE ReadReturn(Ok(state))
    /\ UNCHANGED <<raddr, producerVars, cacheEnabled, hostVars, sink, cache, now>>
    /\ UNCHANGED batcherVars

\* cache.set(state).await?  then Ok(state)
ReadCacheSet ==
    /\ rpc = "cache_set"
    /\ \E ok \in BOOLEAN, t \in ClockReadings :
         IF ok
         THEN /\ now' = t
              /\ cache' = SetEx(cache, Unwrap(rrow), t)
              /\ ReadReturn(Ok(rrow))
         ELSE /\ ReadReturn(Err("cache_set"))
              /\ UNCHANGED <<cache, now>>
    /\ UNCHANGED <<raddr, rqueries, producerVars, cacheEnabled, hostVars, sink>>
    /\ UNCHANGED batcherVars

----------------------------------------------------------------------------
(* Environment                                                              *)

\* the redis server drops a key whose SETEX time-to-live has run out
BackendExpire(key) ==
    /\ IsSome(cache[key])
    /\ \E t \in ClockReadings :
         /\ t - from_json(Unwrap(cache[key])).cached_at
               >= 2 * from_json(Unwrap(cache[key])).ttl_seconds
         /\ now' = t
    /\ cache' = [cache EXCEPT ![key] = None]
    /\ UNCHANGED <<producerVars, cacheEnabled, hostVars, sink>>
    /\ UNCHANGED batcherVars
    /\ UNCHANGED readerVars

\* the ingestion pipeline while the indexer is alive: producer, batcher task
\* and both stores
Next ==
    \/ \E u \in Updates(calls + 1) : calls < MaxCalls /\ process_update(u) /\ UNCHANGED hostVars
    \/ BatcherRecv
    \/ BatcherTick
    \/ FlushDatabase
    \/ FlushCache
    \/ \E k \in CacheKeys : BackendExpire(k)

Spec == Init /\ [][Next]_vars

\* the ingestion pipeline with its shutdown
NextShutdown ==
    \/ \E u \in Updates(calls + 1) : calls < MaxCalls /\ process_update(u) /\ UNCHANGED hostVars
    \/ DropIndexer
    \/ BatcherRecv
    \/ BatcherClosed
    \/ BatcherTick
    \/ FlushDatabase
    \/ FlushCache
    \/ \E k \in CacheKeys : BackendExpire(k)

\* the live pipeline with the batcher task and the timer scheduled: a
\* buffered message is eventually received, the 100 ms interval eventually
\* ticks while the loop waits, and the database and cache calls process_batch
\* awaits eventually return
SpecFair ==
    /\ Spec
    /\ WF_vars(BatcherRecv)
    /\ WF_vars(BatcherTick)
    /\ WF_vars(FlushDatabase)
    /\ WF_vars(FlushCache)

SpecShutdown == Init /\ [][NextShutdown]_vars

\* the same with the batcher task scheduled: a message or the close of the
\* channel that rx.recv() can return is eventually taken by the select!, and
\* the database and cache calls process_batch awaits eventually return
SpecShutdownFair ==
    /\ SpecShutdown
    /\ WF_vars(BatcherRecv)
    /\ WF_vars(BatcherClosed)
    /\ WF_vars(FlushDatabase)
    /\ WF_vars(FlushCache)

----------------------------------------------------------------------------
(* A client of Database alone: upserts made directly on a constructed       *)
(* Database, no Indexer and no plugin                                       *)

VaultState(addr, balance, slot, wv, t) ==
    [vault_address |-> addr, owner |-> Authority, balance |-> balance,
     assets |-> <<>>, permissions |-> <<>>, last_updated |-> t,
     slot |-> slot, write_version |-> wv]

\* the states a client upserts: two of vault A (one with a balance above
\* i64::MAX at the model's width) and one of vault B
SampleStates ==
    { VaultState(VaultA, U64Mod - 1, 10, 1, 0),
      VaultState(VaultA, 7, 5, 2, 1),
      VaultState(VaultB, 7, 10, 1, 0) }

SampleBatches ==
    {<<s>> : s \in SampleStates} \cup {<<s1, s2>> : s1 \in SampleStates, s2 \in SampleStates}

\* direct upsert calls explored
MaxDbCalls == batch_size

\* no Indexer has been constructed: no channel, no batcher task, no reader
NoIndexer ==
    /\ chan = <<>>
    /\ closed = FALSE
    /\ calls = 0
    /\ puRes = "none"
    /\ batch = <<>>
    /\ bpc = "unspawned"
    /\ branch = "none"
    /\ vault_states = <<>>
    /\ handed = <<>>
    /\ flushRes = "none"
    /\ cache = [k \in CacheKeys |-> None]
    /\ now = 0
    /\ rpc = "idle"
    /\ raddr = None
    /\ rrow = None
    /\ rres = [kind |-> "none"]
    /\ rqueries = 0
    /\ indexer = FALSE
    /\ ipc = "none"
    /\ onLoadRes = "none"
    /\ uaOutcome = "none"
    /\ logs = {}

\* Database::new has returned; the table (CREATE TABLE IF NOT EXISTS) holds
\* whatever rows it held before
InitUpsert ==
    /\ NoIndexer
    /\ cacheEnabled = FALSE
    /\ dbCalls = <<>>
    /\ decIn = None
    /\ decOut = [kind |-> "none"]
    /\ sink \in [AddrStrs -> {None} \cup {Some(RowOf(s)) : s \in SampleStates}]
    /\ \A k \in AddrStrs : IsSome(sink[k]) => Unwrap(sink[k]).vault_address = k

\* a call of Database::upsert_vault_state
CallUpsert(state) ==
    /\ Len(dbCalls) < MaxDbCalls
    /\ \E ok \in BOOLEAN :
         LET r == upsert_vault_state(sink, state, ok)
         IN /\ sink' = r.rows
            /\ dbCalls' = Append(dbCalls, [op |-> "upsert_vault_state",
                                            states |-> <<state>>, res |-> r.res])
    /\ UNCHANGED <<producerVars, batcherVars, readerVars, pluginVars, cacheEnabled, cache, now,
                   decIn, decOut>>

\* a call of Database::batch_upsert_vault_states
CallBatchUpsert(states) ==
    /\ Len(dbCalls) < MaxDbCalls
    /\ \E failAt \in 0..(Len(states) + 1) :
         LET r == batch_upsert_vault_states(sink, states, failAt)
         IN /\ sink' = r.rows
            /\ dbCalls' = Append(dbCalls, [op |-> "batch_upsert_vault_states",
                                            states |-> states, res |-> r.res])
    /\ UNCHANGED <<producerVars, batcherVars, readerVars, pluginVars, cacheEnabled, cache, now,
                   decIn, decOut>>

NextUpsert ==
    \/ \E s \in SampleStates : CallUpsert(s)
    \/ \E b \in SampleBatches : CallBatchUpsert(b)

SpecUpsert == InitUpsert /\ [][NextUpsert]_vars

----------------------------------------------------------------------------
(* The decoder alone: parse_vault_state applied to one update               *)

\* account data of every length around the two offsets, with a balance field
\* whose bytes differ from one another
DataFive == Authority \o to_le_bytes(5)

DataSamples ==
    { <<>>, DataShort, DataOwner, DataOwner \o <<1>>,
      SubSeq(DataFive, 1, BalanceEnd - 1), DataFive, DataFive \o <<1>>,
      DataBalance, VaultProgram \o to_le_bytes(2) }

DecodeInputs ==
    { [pubkey |-> pk, lamports |-> l, owner |-> VaultProgram, data |-> d,
       write_version |-> wv, slot |-> sl] :
         pk \in Addrs, l \in {0, 7}, d \in DataSamples, wv \in {1, 2}, sl \in {5, 10} }

InitDecode ==
    /\ NoIndexer
    /\ cacheEnabled = FALSE
    /\ sink = [k \in AddrStrs |-> None]
    /\ dbCalls = <<>>
    /\ decIn \in {Some(u) : u \in DecodeInputs}
    /\ decOut = [kind |-> "none"]

\* Self::parse_vault_state(update): reads the update through a shared
\* reference and the clock, returns Ok(Option<VaultState>)
CallParse ==
    /\ decOut.kind = "none"
    /\ \E t \in ClockReadings :
         /\ now' = t
         /\ decOut' = [kind |-> "Ok", val |-> parse_vault_state(Unwrap(decIn), t)]
    /\ UNCHANGED <<decIn, dbCalls, pluginVars, producerVars, batcherVars, readerVars,
                   cacheEnabled, sink, cache>>

NextDecode == CallParse

SpecDecode == InitDecode /\ [][NextDecode]_vars

----------------------------------------------------------------------------
(* The plugin lifecycle: GeyserIndexerPlugin driven by the host             *)

\* _create_plugin has returned: no configuration, no Indexer, nothing spawned
InitPlugin ==
    /\ NoIndexer
    /\ cacheEnabled \in BOOLEAN
    /\ sink = [k \in AddrStrs |-> None]
    /\ dbCalls = <<>>
    /\ decIn = None
    /\ decOut = [kind |-> "none"]

\* on_load.  cfg = "file": Config::from_file succeeds; "env": it fails, a
\* warning is logged and Config::from_env succeeds; "none": both fail and
\* on_load returns ConfigFileReadError.  With a configuration, the
\* initialization task is spawned and on_load returns Ok(()) at once.
on_load(cfg) ==
    /\ onLoadRes = "none"
    /\ logs' = logs \cup {"Loading Vaulta Geyser Indexer plugin..."}
                   \cup (IF cfg = "file" THEN {}
                         ELSE {"Failed to load config file, using environment variables"})
                   \cup (IF cfg = "none" THEN {"Failed to load config"} ELSE {})
    /\ IF cfg = "none"
       THEN onLoadRes' = "Err" /\ UNCHANGED ipc
       ELSE onLoadRes' = "Ok" /\ ipc' = "db"
    /\ UNCHANGED <<indexer, uaOutcome, dbCalls, decIn, decOut, cacheEnabled, sink, cache, now>>
    /\ UNCHANGED <<producerVars, batcherVars, readerVars>>

\* the spawned task when initialize_indexer returns Err: log, nothing else
InitFailed ==
    /\ ipc' = "failed"
    /\ logs' = logs \cup {"Failed to initialize indexer"}
    /\ UNCHANGED <<indexer, bpc>>

\* initialize_indexer: Database::new(..).await?
InitDatabase ==
    /\ ipc = "db"
    /\ \E ok \in BOOLEAN :
         IF ok
         THEN /\ ipc' = IF cacheEnabled THEN "cache" ELSE "new"
              /\ UNCHANGED <<indexer, logs, bpc>>
         ELSE InitFailed
    /\ UNCHANGED <<onLoadRes, uaOutcome, dbCalls, decIn, decOut, cacheEnabled, sink, cache, now>>
    /\ UNCHANGED <<producerVars, readerVars, batch, branch, vault_states, handed, flushRes>>

\* initialize_indexer: RedisCache::new(..).await? when config.enable_cache
InitCache ==
    /\ ipc = "cache"
    /\ \E ok \in BOOLEAN :
         IF ok
         THEN /\ ipc' = "new"
              /\ UNCHANGED <<indexer, logs, bpc>>
         ELSE InitFailed
    /\ UNCHANGED <<onLoadRes, uaOutcome, dbCalls, decIn, decOut, cacheEnabled, sink, cache, now>>
    /\ UNCHANGED <<producerVars, readerVars, batch, branch, vault_states, handed, flushRes>>

\* initialize_indexer: Indexer::new(..).await? (the program id parses or not;
\* on success the batcher task is spawned), then the task stores the Indexer
\* in the plugin
InitIndexer ==
    /\ ipc = "new"
    /\ \E ok \in BOOLEAN :
         IF ok
         THEN /\ ipc' = "done"
              /\ bpc' = "select"
              /\ indexer' = TRUE
              /\ logs' = logs \cup {"Vaulta Geyser Indexer initialized successfully"}
         ELSE InitFailed
    /\ UNCHANGED <<onLoadRes, uaOutcome, dbCalls, decIn, decOut, cacheEnabled, sink, cache, now>>
    /\ UNCHANGED <<producerVars, readerVars, batch, branch, vault_states, handed, flushRes>>

\* the log lines update_account can write
UpdateAccountLogs ==
    {"Failed to convert account info", "Failed to process account update"}

\* update_account: with an Indexer, convert (never fails) and process_update
\* (which returns Ok); without one, the empty else branch.  Ok(()) either way.
update_account(update) ==
    /\ onLoadRes = "Ok"
    /\ IF indexer
       THEN /\ process_update(update)
            /\ uaOutcome' = "processed"
       ELSE /\ uaOutcome' = "skipped"
            /\ UNCHANGED <<producerVars, cacheEnabled, sink, cache, now>>
            /\ UNCHANGED batcherVars
            /\ UNCHANGED readerVars
    /\ UNCHANGED <<indexer, ipc, onLoadRes, logs, dbCalls, decIn, decOut>>

\* on_unload: the plugin's Option is cleared; the Indexer it held, if any, is
\* dropped and with it the channel's sender
on_unload ==
    /\ onLoadRes = "Ok"
    /\ "Unloading Vaulta Geyser Indexer plugin" \notin logs
    /\ logs' = logs \cup {"Unloading Vaulta Geyser Indexer plugin"}
    /\ indexer' = FALSE
    /\ closed' = (closed \/ indexer)
    /\ UNCHANGED <<ipc, onLoadRes, uaOutcome, dbCalls, decIn, decOut, cacheEnabled, sink, cache, now>>
    /\ UNCHANGED <<chan, calls, puRes>>
    /\ UNCHANGED <<batcherVars, readerVars>>

\* updates the host delivers in this specification
MaxPluginCalls == batch_size

NextPlugin ==
    \/ \E cfg \in {"file", "env", "none"} : on_load(cfg)
    \/ InitDatabase
    \/ InitCache
    \/ InitIndexer
    \/ \E u \in Updates(calls + 1) : calls < MaxPluginCalls /\ update_account(u)
    \/ on_unload
    \/ BatcherRecv
    \/ BatcherClosed
    \/ BatcherTick
    \/ FlushDatabase
    \/ FlushCache

SpecPlugin == InitPlugin /\ [][NextPlugin]_vars

\* the reader running against the live pipeline
NextRead ==
    \/ \E u \in VaultUpdates(calls + 1) : calls < batch_size /\ process_update(u) /\ UNCHANGED hostVars
    \/ BatcherRecv
    \/ BatcherTick
    \/ FlushDatabase
    \/ FlushCache
    \/ \E a \in AddrStrs : ReadCall(a)
    \/ ReadCacheGet
    \/ ReadCacheDel
    \/ ReadDbGet
    \/ ReadCacheSet
    \/ \E k \in CacheKeys : BackendExpire(k)

SpecRead == Init /\ [][NextRead]_vars

\* the reader and the pipeline while every database and cache operation
\* succeeds: the steps in which process_batch or get_vault_state returns an
\* error are left out
NextReadHealthy ==
    /\ NextRead
    /\ flushRes' # "Err"
    /\ rres'.kind # "Err"

SpecReadHealthy == Init /\ [][NextReadHealthy]_vars

----------------------------------------------------------------------------
(* Properties                                                               *)

Range(seq) == {seq[i] : i \in DOMAIN seq}

\* every update process_batch has been called with
HandedUpdates == UNION {Range(handed[i]) : i \in DOMAIN handed}

\* `state` is what parse_vault_state makes of `update` (at some clock reading)
DecodedFrom(state, update) ==
    parse_vault_state(update, state.last_updated) = Some(state)

\* what RedisCache::get answers for addrStr at clock reading t on a healthy cache
CacheLookup(keys, addrStr, t) ==
    LET data == keys[cache_key(addrStr)]
    IN IF IsSome(data) /\ Fresh(from_json(Unwrap(data)), t)
       THEN Some(from_json(Unwrap(data)).vault_state)
       ELSE None

\* a step of the batcher that took the recv branch with Some(update)
RecvStep == Len(chan') < Len(chan)

\* a step of the batcher that took the tick branch
TickStep == branch' = "tick" /\ (branch # "tick" \/ handed' # handed)

\* a step in which process_batch returned `res` to the loop
ReturnStep(res) ==
    /\ bpc' = "select"
    /\ flushRes' = res
    /\ \/ bpc \in {"db", "cache"}
       \/ handed' # handed

----------------------------------------------------------------------------
\* C1  Filter exclusivity.  Only updates owned by the tracked program are ever
\* in the channel, in the batch or in a batch handed to process_batch; every
\* row of the sink and every cache entry is decoded from such an update; and a
\* process_update call returns Ok, touches nothing but the channel, and leaves
\* the channel alone unless it appends an update of the tracked program.
C1_Tracked ==
    /\ \A u \in Range(chan) \cup Range(batch) \cup HandedUpdates : u.owner = VaultProgram
    /\ \A k \in AddrStrs :
         IsSome(sink[k]) =>
           \E u \in HandedUpdates :
              /\ u.owner = VaultProgram
              /\ DecodedFrom(Unwrap(db_get_vault_state(sink, k)), u)
    /\ \A k \in AddrStrs :
         IsSome(cache[cache_key(k)]) =>
           \E u \in HandedUpdates :
              /\ u.owner = VaultProgram
              /\ DecodedFrom(from_json(Unwrap(cache[cache_key(k)])).vault_state, u)

C1_CallStep ==
    calls' # calls =>
       /\ puRes' = "Ok"
       /\ UNCHANGED <<batch, bpc, vault_states, handed, flushRes, sink, cache>>
       /\ \/ chan' = chan
          \/ /\ Len(chan') = Len(chan) + 1
             /\ SubSeq(chan', 1, Len(chan)) = chan
             /\ chan'[Len(chan')].owner = VaultProgram

\* C1: updates of other owners reach neither the channel, a batch nor a store,
\* and process_update returns Ok without side effects
C1_FilterExclusivity == [](C1_Tracked) /\ [][C1_CallStep]_vars

\* two calls, one update flushed into the sink, nothing pending: the other
\* call's update was dropped by the filter
C1_Witness ==
    /\ calls = 2
    /\ chan = <<>> /\ batch = <<>> /\ bpc = "select"
    /\ Len(handed) = 1 /\ Len(handed[1]) = 1
    /\ IsSome(sink[to_string(VaultA)])
    /\ flushRes = "Ok"

----------------------------------------------------------------------------
\* C2  Size-triggered flush.  The batch never holds batch_size updates while
\* the loop waits; the recv step that appends the batch_size-th update calls
\* process_batch in that same step, once, with exactly the batch_size updates
\* received since the last flush; a recv step that leaves the batch shorter
\* calls nothing.
C2_RecvStep ==
    RecvStep =>
       LET pushed == Append(batch, Head(chan))
       IN /\ Len(pushed) <= batch_size
          /\ IF Len(pushed) = batch_size
             THEN /\ handed' = Append(handed, pushed)
                  /\ bpc' = "db" \/ ReturnStep("Ok")
             ELSE /\ handed' = handed
                  /\ batch' = pushed
                  /\ bpc' = "select"

\* C2: the batch_size-th append flushes at once, exactly once, all of them
C2_SizeTriggeredFlush == [][C2_RecvStep]_vars

\* a full batch was handed over right after a recv, with no tick since
C2_Witness ==
    /\ branch = "recv"
    /\ handed # <<>>
    /\ Len(handed[Len(handed)]) = batch_size
    /\ bpc = "db"
    /\ batch = handed[Len(handed)]

----------------------------------------------------------------------------
\* C3  Time-triggered flush.  A tick that finds fewer than batch_size updates
\* in the batch (and at least one) calls process_batch once with exactly those
\* updates; a tick that finds the batch empty calls nothing and changes
\* neither the batch nor the stores.
C3_TickStep ==
    TickStep =>
       IF batch # <<>>
       THEN /\ Len(batch) < batch_size
            /\ handed' = Append(handed, batch)
            /\ bpc' = "db" \/ ReturnStep("Ok")
       ELSE /\ handed' = handed
            /\ UNCHANGED <<batch, bpc, vault_states, flushRes, sink, cache, chan>>

\* a batch waiting in the loop was put there by recv, so no tick has passed it by
C3_NoTickMissed == (bpc = "select" /\ batch # <<>>) => branch = "recv"

\* C3: a tick flushes a non-empty partial batch once and whole, an empty one never
C3_TimeTriggeredFlush == [](C3_NoTickMissed) /\ [][C3_TickStep]_vars

\* a partial batch was handed over by a tick
C3_Witness ==
    /\ branch = "tick"
    /\ handed # <<>>
    /\ Len(handed[Len(handed)]) < batch_size
    /\ bpc = "db"
    /\ batch = handed[Len(handed)]

----------------------------------------------------------------------------
\* C4  Shutdown flush (as claimed): when the loop has terminated, every update
\* the batch held has been handed to process_batch.
C4_ShutdownFlush ==
    bpc = "done" => \A u \in Range(batch) : u \in HandedUpdates

----------------------------------------------------------------------------
\* C5  Batch atomicity.  The step that runs batch_upsert_vault_states either
\* commits every record of the batch, in order, or leaves the sink's rows
\* unchanged and makes process_batch return the error.
C5_DbStep ==
    (bpc = "db" /\ bpc' # "db") =>
       \/ /\ sink' = UpsertPrefix(sink, vault_states, Len(vault_states))
          /\ bpc' = "cache" \/ ReturnStep("Ok")
       \/ /\ sink' = sink
          /\ ReturnStep("Err")
          /\ cache' = cache

\* C5: batch_upsert_vault_states commits all records or none and returns the error
C5_BatchAtomicity == [][C5_DbStep]_vars

\* a batch of two decodable updates failed in the database (the cache is off,
\* so the error is the database's) and no row was committed
C5_Witness ==
    /\ ~cacheEnabled
    /\ flushRes = "Err"
    /\ Len(handed) = 1
    /\ Len(DecodeAll(handed[1], 0)) = 2
    /\ \A k \in AddrStrs : sink[k] = None

----------------------------------------------------------------------------
\* C6  No retry.  When process_batch returns an error the loop records it,
\* clears the batch and calls nothing again in that step; no update is ever in
\* two handed batches or twice in one, and an update that has been handed is
\* neither in the channel nor in a batch waiting for its next trigger.
C6_AtMostOnce ==
    /\ \A i, k \in DOMAIN handed :
         \A j \in DOMAIN handed[i], l \in DOMAIN handed[k] :
            handed[i][j] = handed[k][l] => (i = k /\ j = l)
    /\ \A u \in HandedUpdates :
         /\ u \notin Range(chan)
         /\ u \in Range(batch) => (bpc \in {"db", "cache"} /\ batch = handed[Len(handed)])

C6_ErrStep ==
    (bpc \in {"db", "cache"} /\ bpc' = "select" /\ flushRes' = "Err") =>
       /\ batch' = <<>>
       /\ vault_states' = <<>>
       /\ handed' = handed

----------------------------------------------------------------------------
\* C7  Cache-aside correctness.  When the cache (enabled, answering) has no
\* entry for the address, get_vault_state goes on to the sink; when the sink
\* has a row it keeps that row, as converted back to a VaultState; and once
\* cache.set has succeeded the call returns that row and a cache lookup made
\* at the same instant hits and gives the same state.
C7_ReadStep ==
    /\ (rpc = "cache_get" /\ rpc' # "cache_get"
          /\ ~IsSome(cache[cache_key(Unwrap(raddr))]) /\ rres' # Err("cache_get"))
       => rpc' = "db_get"
    /\ (rpc = "db_get" /\ rpc' # "db_get" /\ rres' # Err("db_get")
          /\ cacheEnabled /\ IsSome(sink[Unwrap(raddr)]))
       => /\ rpc' = "cache_set"
          /\ rrow' = db_get_vault_state(sink, Unwrap(raddr))
          /\ Unwrap(rrow').vault_address = parse_pubkey(Unwrap(raddr))
    /\ (rpc = "cache_set" /\ rpc' # "cache_set" /\ rres' # Err("cache_set"))
       => /\ rres' = Ok(rrow)
          /\ CacheLookup(cache', Unwrap(raddr), now') = rrow

\* C7: a cache miss on a row of the sink returns the row and leaves it in the cache
C7_CacheAside == [][C7_ReadStep]_vars

\* the sink has the row, the cache has no entry for it, and the reader has
\* read the row from the sink and is about to populate the cache
C7_Witness ==
    /\ rpc = "cache_set"
    /\ IsSome(rrow)
    /\ rrow = db_get_vault_state(sink, Unwrap(raddr))
    /\ cache[cache_key(Unwrap(raddr))] = None

----------------------------------------------------------------------------
\* C8  TTL expiry.  When RedisCache::get finds an entry and reads the clock
\* later than cached_at + ttl_seconds, it does not return the entry: it goes
\* on to delete the key, and the delete removes that key and nothing else
\* before the miss is reported.  When the clock reads an age in
\* [0, ttl_seconds), the call returns the stored state and the cache is
\* unchanged.  (Times are in half seconds.)
C8_GetStep ==
    LET key == cache_key(Unwrap(raddr))
        entry == from_json(Unwrap(cache[key]))
    IN /\ (rpc = "cache_get" /\ rpc' # "cache_get" /\ IsSome(cache[key])
             /\ rres' # Err("cache_get"))
          => /\ (now' - entry.cached_at > 2 * ttl_seconds)
                => (rpc' = "cache_del" /\ rres' = rres)
             /\ (now' - entry.cached_at >= 0 /\ now' - entry.cached_at < 2 * ttl_seconds)
                => (rpc' = "idle" /\ rres' = Ok(Some(entry.vault_state)) /\ cache' = cache)
       /\ (rpc = "cache_del" /\ rpc' # "cache_del" /\ rres' # Err("cache_get"))
          => /\ cache' = [cache EXCEPT ![key] = None]
             /\ rpc' = "db_get"

\* C8: an entry older than its ttl is a miss and is deleted; a younger one is a hit
C8_TtlExpiry == [][C8_GetStep]_vars

\* get has found an entry that the backend still holds although the clock
\* reads later than cached_at + ttl_seconds, and is about to delete it
C8_Witness ==
    /\ rpc = "cache_del"
    /\ IsSome(cache[cache_key(Unwrap(raddr))])
    /\ now - from_json(Unwrap(cache[cache_key(Unwrap(raddr))])).cached_at > 2 * ttl_seconds

----------------------------------------------------------------------------
\* C9  Reads survive cache failure (as claimed): no get_vault_state call ends
\* with the error of a failed cache get.
C9_ReadsSurviveCacheFailure == rres # Err("cache_get")

----------------------------------------------------------------------------
\* C10  Best-effort repopulation (as claimed): no get_vault_state call ends
\* with the error of a failed cache set.
C10_BestEffortRepopulation == rres # Err("cache_set")

----------------------------------------------------------------------------
\* C11  Persistence is independent of cache health.  While process_batch is at
\* the cache write, the sink already holds, for every decoded state of the
\* batch, the row of the last state of the batch for that address; the step
\* that ends the cache write, failed or not, changes no row of the sink and
\* puts the loop back at its select!, with an empty batch, where it takes the
\* next update or tick.
C11_Committed ==
    bpc = "cache" =>
       \A i \in DOMAIN vault_states :
          \E j \in i..Len(vault_states) :
             /\ vault_states[j].vault_address = vault_states[i].vault_address
             /\ \A l \in (j + 1)..Len(vault_states) :
                   vault_states[l].vault_address # vault_states[i].vault_address
             /\ sink[to_string(vault_states[i].vault_address)] = Some(RowOf(vault_states[j]))

C11_CacheStep ==
    (bpc = "cache" /\ bpc' # "cache") =>
       /\ sink' = sink
       /\ bpc' = "select"
       /\ batch' = <<>>
       /\ flushRes' \in {"Ok", "Err"}

\* C11: a committed batch stays committed whether or not batch_set succeeds,
\* and a cache failure leaves the batcher loop running
C11_PersistenceIndependentOfCache == [](C11_Committed) /\ [][C11_CacheStep]_vars

\* the first flush committed its row and then failed in the cache; the loop
\* went on and is now flushing a second batch
C11_Witness ==
    /\ cacheEnabled
    /\ Len(handed) = 2
    /\ bpc = "db"
    /\ flushRes = "Err"
    /\ IsSome(sink[to_string(VaultA)])

----------------------------------------------------------------------------
\* C12  Not-found versus unavailable (as claimed): a get_vault_state call for
\* an address that has neither a row in the sink nor an entry in the cache
\* ends with an error only when the sink itself could not be queried;
\* otherwise it returns Ok(None).
C12_NotFoundNeverError ==
    (/\ rpc = "idle"
     /\ IsSome(raddr)
     /\ rres.kind # "none"
     /\ sink[Unwrap(raddr)] = None
     /\ cache[cache_key(Unwrap(raddr))] = None)
    => (rres = Ok(None) \/ rres = Err("db_get"))

----------------------------------------------------------------------------
\* C13  Write-through.  When process_batch returns Ok after its cache write,
\* a cache lookup at that instant hits, for every address of the batch, with
\* the state the batch persisted for it (its last state for that address);
\* and a get_vault_state call whose cache get finds an unexpired entry
\* returns that entry's state without a single query of the sink.
C13_FlushStep ==
    (bpc = "cache" /\ bpc' = "select" /\ flushRes' = "Ok") =>
       \A i \in DOMAIN vault_states :
          \E j \in i..Len(vault_states) :
             /\ vault_states[j].vault_address = vault_states[i].vault_address
             /\ \A l \in (j + 1)..Len(vault_states) :
                   vault_states[l].vault_address # vault_states[i].vault_address
             /\ sink'[to_string(vault_states[i].vault_address)] = Some(RowOf(vault_states[j]))
             /\ CacheLookup(cache', to_string(vault_states[i].vault_address), now')
                   = Some(vault_states[j])

C13_HitStep ==
    (/\ rpc = "cache_get" /\ rpc' # "cache_get"
     /\ rres' # Err("cache_get")
     /\ IsSome(CacheLookup(cache, Unwrap(raddr), now')))
    => /\ rpc' = "idle"
       /\ rres' = Ok(CacheLookup(cache, Unwrap(raddr), now'))
       /\ rqueries' = 0

\* C13: a successful flush leaves its states in the cache, and a read of one
\* of them before expiry is answered from the cache with no sink query
C13_WriteThrough == [][C13_FlushStep /\ C13_HitStep]_vars

\* one flush of a two-update batch has succeeded, nothing else was accepted,
\* and a read of its address returned the flushed state with no sink query
C13_Witness ==
    /\ cacheEnabled
    /\ Len(handed) = 1 /\ Len(handed[1]) = 2 /\ calls = 2
    /\ flushRes = "Ok"
    /\ bpc = "select" /\ batch = <<>> /\ chan = <<>>
    /\ rpc = "idle"
    /\ rqueries = 0
    /\ rres.kind = "Ok"
    /\ rres.val = db_get_vault_state(sink, to_string(VaultA))
    /\ IsSome(rres.val)

----------------------------------------------------------------------------
\* C14  Unconditional last-write-wins.  Only the database write of a flush
\* changes the sink; when it commits, the row of every address of the batch
\* becomes the row of the batch's last decoded state for that address,
\* whatever slot and write_version the stored row and the earlier states of
\* the batch carry, and the rows of the other addresses stay as they were.
C14_CommitStep ==
    /\ sink' # sink => bpc = "db"
    /\ (bpc = "db" /\ bpc' # "db" /\ ~ReturnStep("Err")) =>
          \A k \in AddrStrs :
             LET idx == {i \in DOMAIN vault_states : to_string(vault_states[i].vault_address) = k}
             IN IF idx = {}
                THEN sink'[k] = sink[k]
                ELSE \E j \in idx :
                        /\ \A i \in idx : i <= j
                        /\ sink'[k] = Some(RowOf(vault_states[j]))

\* C14: the committed row is always that of the latest committed state, with
\* no comparison of slot or write_version
C14_LastWriteWins == [][C14_CommitStep]_vars

\* a write of slot 10 followed by a write of slot 5 of the same address was
\* committed, and the stored row has slot 5
C14_Witness ==
    /\ Len(handed) = 1 /\ Len(handed[1]) = 2
    /\ handed[1][1].pubkey = VaultA /\ handed[1][1].slot = 10
    /\ handed[1][2].pubkey = VaultA /\ handed[1][2].slot = 5
    /\ ~cacheEnabled
    /\ bpc = "select" /\ flushRes = "Ok"
    /\ IsSome(sink[to_string(VaultA)])
    /\ Unwrap(sink[to_string(VaultA)]).slot = 5
    /\ Unwrap(sink[to_string(VaultA)]).write_version = handed[1][2].write_version

----------------------------------------------------------------------------
\* C15  Idempotent upsert.  On every table, upserting a state through
\* upsert_vault_state or batch_upsert_vault_states stores exactly the bound
\* columns of the state under its address, in that one row only, and doing
\* it a second time (a second call, or the state twice in one batch) gives
\* the same table; and a successful call that repeats the successful call
\* before it changes nothing.
C15_Pure ==
    \A st \in SampleStates :
       LET key   == to_string(st.vault_address)
           once  == upsert_vault_state(sink, st, TRUE).rows
           bonce == batch_upsert_vault_states(sink, <<st>>, 0).rows
       IN /\ once[key] = Some(RowOf(st))
          /\ \A k \in AddrStrs \ {key} : once[k] = sink[k]
          /\ Cardinality({k \in AddrStrs :
                            IsSome(once[k]) /\ Unwrap(once[k]).vault_address = key}) = 1
          /\ upsert_vault_state(once, st, TRUE).rows = once
          /\ bonce = once
          /\ batch_upsert_vault_states(bonce, <<st>>, 0).rows = once
          /\ batch_upsert_vault_states(sink, <<st, st>>, 0).rows = once

C15_RepeatStep ==
    (/\ dbCalls # <<>>
     /\ Len(dbCalls') = Len(dbCalls) + 1
     /\ dbCalls[Len(dbCalls)].res = "Ok"
     /\ dbCalls'[Len(dbCalls')].res = "Ok"
     /\ dbCalls'[Len(dbCalls')].states = dbCalls[Len(dbCalls)].states)
    => sink' = sink

\* C15: upserting the same state twice leaves the same single row as upserting it once
C15_IdempotentUpsert == [](C15_Pure) /\ [][C15_RepeatStep]_vars

\* the same state (its balance stored as a negative BIGINT) was upserted by
\* two successful upsert_vault_state calls on an empty table: one row holds it
C15_Witness ==
    /\ Len(dbCalls) = 2
    /\ dbCalls[1] = dbCalls[2]
    /\ dbCalls[1].op = "upsert_vault_state"
    /\ dbCalls[1].res = "Ok"
    /\ dbCalls[1].states = <<VaultState(VaultA, U64Mod - 1, 10, 1, 0)>>
    /\ sink[to_string(VaultA)] = Some(RowOf(dbCalls[1].states[1]))
    /\ Unwrap(sink[to_string(VaultA)]).balance < 0
    /\ sink[to_string(VaultB)] = None

----------------------------------------------------------------------------
\* C16  Malformed payloads are skipped, not fatal.  When process_batch is
\* called, the states it goes on to write are exactly the decodings of the
\* updates of the batch whose data has at least 32 bytes, in order; when no
\* update of the batch is that long it returns Ok at once and writes nothing.
\* A database write that commits leaves a row for every one of those states
\* and a cache write that succeeds an entry; and no row of the sink belongs
\* to an address of which only undecodable updates were handed over.
Decodable(u) == Len(u.data) >= OwnerLen

C16_HandStep ==
    handed' # handed =>
       LET good == SelectSeq(handed'[Len(handed')], Decodable)
       IN IF good = <<>>
          THEN ReturnStep("Ok") /\ UNCHANGED <<sink, cache>>
          ELSE /\ bpc' = "db"
               /\ Len(vault_states') = Len(good)
               /\ \A i \in DOMAIN good : DecodedFrom(vault_states'[i], good[i])

C16_WriteStep ==
    /\ (bpc = "db" /\ bpc' # "db" /\ ~ReturnStep("Err"))
       => \A i \in DOMAIN vault_states :
             IsSome(sink'[to_string(vault_states[i].vault_address)])
    /\ (bpc = "cache" /\ bpc' # "cache" /\ ~ReturnStep("Err"))
       => \A i \in DOMAIN vault_states :
             IsSome(cache'[cache_key(to_string(vault_states[i].vault_address))])

C16_Excluded ==
    /\ \A u \in HandedUpdates \cup Range(batch) :
          ~Decodable(u) => parse_vault_state(u, now) = None
    /\ \A k \in AddrStrs :
          (IsSome(sink[k]) \/ IsSome(cache[cache_key(k)]))
          => \E u \in HandedUpdates : Decodable(u) /\ to_string(u.pubkey) = k

\* C16: an undecodable update is left out of the persisted set, the decodable
\* updates of its batch are still written, and process_batch does not fail on it
C16_MalformedSkipped == [](C16_Excluded) /\ [][C16_HandStep /\ C16_WriteStep]_vars

\* a batch of an undecodable update of vault B and a decodable one of vault A
\* was flushed: process_batch returned Ok, A is in both stores and B in neither
C16_Witness ==
    /\ cacheEnabled
    /\ Len(handed) = 1 /\ Len(handed[1]) = 2
    /\ ~Decodable(handed[1][1]) /\ handed[1][1].pubkey = VaultB
    /\ Decodable(handed[1][2]) /\ handed[1][2].pubkey = VaultA
    /\ bpc = "select" /\ flushRes = "Ok"
    /\ IsSome(sink[to_string(VaultA)]) /\ IsSome(cache[cache_key(to_string(VaultA))])
    /\ sink[to_string(VaultB)] = None /\ cache[cache_key(to_string(VaultB))] = None

----------------------------------------------------------------------------
\* C17  Startup drops are logged (as claimed): when the last update_account
\* call found no Indexer and dropped its update, update_account has written
\* a log line.
C17_StartupDropsLogged ==
    uaOutcome = "skipped" => logs \cap UpdateAccountLogs # {}

----------------------------------------------------------------------------
\* C18  Initialization failure is reported (as claimed): when the Sink or the
\* cache could not be opened and initialization has failed, on_load has not
\* reported success to the host.
C18_InitFailureReported ==
    ipc = "failed" => onLoadRes # "Ok"

----------------------------------------------------------------------------
\* C19  Arrival order is preserved.  The host numbers its writes, so an update
\* accepted later carries a greater write_version.  The updates handed to
\* process_batch so far, batch after batch, followed by those of the waiting
\* batch and those still in the channel, are in acceptance order; the states
\* process_batch is writing are in that order too; and a commit moves the row
\* of an address to the latest accepted state of the batch for it, never back
\* to a state accepted earlier than the one the row held.
RECURSIVE Flatten(_)
Flatten(seqs) == IF seqs = <<>> THEN <<>> ELSE Head(seqs) \o Flatten(Tail(seqs))

InAcceptanceOrder(seq) ==
    \A i, j \in DOMAIN seq : i < j => seq[i].write_version < seq[j].write_version

C19_Ordered ==
    /\ InAcceptanceOrder(Flatten(handed)
                          \o (IF bpc \in {"db", "cache"} THEN <<>> ELSE batch)
                          \o chan)
    /\ InAcceptanceOrder(vault_states)
    /\ bpc \in {"db", "cache"} =>
          /\ batch = handed[Len(handed)]
          /\ vault_states = DecodeAll(batch, vault_states[1].last_updated)

C19_SinkStep ==
    \A k \in AddrStrs :
       sink'[k] # sink[k] =>
          /\ IsSome(sink'[k])
          /\ IsSome(sink[k]) =>
                Unwrap(sink'[k]).write_version > Unwrap(sink[k]).write_version
          /\ \A i \in DOMAIN vault_states :
                to_string(vault_states[i].vault_address) = k
                => as_i64(vault_states[i].write_version) <= Unwrap(sink'[k]).write_version

\* C19: updates are decoded and written in the order process_update accepted them
C19_ArrivalOrder == [](C19_Ordered) /\ [][C19_SinkStep]_vars

\* three accepted writes of vault A went through two consecutive flushes, the
\* first of two updates and the second of one, and the row is the third write's
C19_Witness ==
    /\ ~cacheEnabled
    /\ Len(handed) = 2 /\ Len(handed[1]) = 2 /\ Len(handed[2]) = 1
    /\ \A u \in HandedUpdates : u.pubkey = VaultA /\ Decodable(u)
    /\ bpc = "select" /\ flushRes = "Ok"
    /\ IsSome(sink[to_string(VaultA)])
    /\ Unwrap(sink[to_string(VaultA)]).write_version = 3

----------------------------------------------------------------------------
\* C20  Flushes are strictly sequential.  process_batch is called only while
\* no call of it is in progress; while one is in progress the batch, the
\* decoded states and the list of calls stay as they are until it returns,
\* and the channel only grows; and every row written to the sink and every
\* entry written to the cache comes from the batch of the call in progress.
C20_Step ==
    /\ handed' # handed =>
          /\ bpc = "select"
          /\ Len(handed') = Len(handed) + 1
    /\ bpc \in {"db", "cache"} =>
          /\ Len(chan') >= Len(chan)
          /\ SubSeq(chan', 1, Len(chan)) = chan
          /\ bpc' \in {"db", "cache"} =>
                /\ batch' = batch
                /\ vault_states' = vault_states
                /\ handed' = handed
          /\ bpc' \notin {"db", "cache"} =>
                /\ bpc' = "select"
                /\ batch' = <<>>
    /\ \A k \in AddrStrs :
          /\ sink'[k] # sink[k] =>
                /\ bpc = "db"
                /\ \E u \in Range(handed[Len(handed)]) :
                      DecodedFrom(Unwrap(db_get_vault_state(sink', k)), u)
          /\ (cache'[cache_key(k)] # cache[cache_key(k)] /\ IsSome(cache'[cache_key(k)])) =>
                /\ bpc = "cache"
                /\ \E u \in Range(handed[Len(handed)]) :
                      DecodedFrom(from_json(Unwrap(cache'[cache_key(k)])).vault_state, u)

\* C20: one flush at a time, and updates that arrive meanwhile wait in the channel
C20_SequentialFlushes == [][C20_Step]_vars

\* a full batch is at its cache write while a further accepted update waits
\* in the channel
C20_Witness ==
    /\ bpc = "cache"
    /\ Len(handed) = 1 /\ Len(batch) = batch_size
    /\ chan # <<>>
    /\ calls = MaxCalls
    /\ chan[1].write_version > batch[Len(batch)].write_version

----------------------------------------------------------------------------
\* C21  Bounded batch.  (batch_size >= 1.)  The batch never holds more than
\* batch_size updates, and while the loop waits at its select! for the next
\* update or tick it holds fewer than batch_size, however many updates are
\* waiting in the channel.
C21_BoundedBatch ==
    /\ batch_size >= 1
    /\ Len(batch) <= batch_size
    /\ bpc = "select" => Len(batch) < batch_size

\* more updates have been accepted than a batch holds: the batch in flight is
\* at its maximum and the surplus waits in the channel
C21_Witness ==
    /\ Len(batch) = batch_size
    /\ bpc = "db"
    /\ calls = MaxCalls
    /\ Len(chan) = MaxCalls - batch_size

----------------------------------------------------------------------------
\* C22  Channel close is the sole termination signal.  The loop has ended
\* only if the channel is closed and drained, and it ends in a step of the
\* recv branch taken at the select! on a closed, drained channel: a flush
\* that returns, failed or not, leaves the loop at its select!, and so do a
\* batch of undecodable updates and a tick.  Once the channel is closed the
\* loop eventually ends.
C22_Done == bpc = "done" => (closed /\ chan = <<>>)

C22_EndStep ==
    /\ (bpc' = "done" /\ bpc # "done") =>
          /\ bpc = "select" /\ closed /\ chan = <<>>
          /\ branch' = "closed"
    /\ (bpc \in {"db", "cache"} /\ bpc' \notin {"db", "cache"}) => bpc' = "select"
    /\ handed' # handed => bpc' \in {"db", "select"}
    /\ (bpc = "select" /\ branch' = "tick") => bpc' \in {"db", "select"}
    /\ bpc = "done" => bpc' = "done"

\* C22: the batcher loop ends if and only if the channel is closed and drained
C22_CloseIsSoleTermination ==
    /\ [](C22_Done)
    /\ [][C22_EndStep]_vars
    /\ (closed ~> bpc = "done")

\* a flush failed, the loop went on, and it ended once the channel was closed
\* and drained
C22_Witness ==
    /\ bpc = "done"
    /\ closed /\ chan = <<>>
    /\ Len(handed) >= 2
    /\ flushRes = "Err"
    /\ sink = [k \in AddrStrs |-> None]
    /\ ~cacheEnabled

----------------------------------------------------------------------------
\* C23  Decoder result.  parse_vault_state returns None when data has fewer
\* than 32 bytes.  Otherwise it returns a state with the update's pubkey,
\* slot and write_version, with data[0..32] as owner, and with a balance that
\* is, when data has at least 40 bytes, the u64 whose little-endian bytes are
\* data[32..40], and the update's lamports when data is shorter.  The update
\* is the same after the call.
C23_Result ==
    decOut.kind # "none" =>
       LET update == Unwrap(decIn)
           len == Len(update.data)
       IN /\ decOut.kind = "Ok"
          /\ len < 32 => decOut.val = None
          /\ len >= 32 =>
                /\ IsSome(decOut.val)
                /\ LET state == Unwrap(decOut.val)
                   IN /\ state.vault_address = update.pubkey
                      /\ state.slot = update.slot
                      /\ state.write_version = update.write_version
                      /\ state.owner = [i \in 1..32 |-> update.data[i]]
                      /\ len >= 40 =>
                            /\ state.balance \in 0..(U64Mod - 1)
                            /\ to_le_bytes(state.balance) = [i \in 1..8 |-> update.data[32 + i]]
                      /\ len < 40 => state.balance = update.lamports

C23_InputKept == decIn' = decIn

\* C23: parse_vault_state returns None or the state the claim describes, and
\* leaves its input as it was
C23_DecoderResult == [](C23_Result) /\ [][C23_InputKept]_vars

\* an update of exactly 40 bytes whose balance field holds 5 was decoded
C23_Witness ==
    /\ IsSome(decIn)
    /\ Unwrap(decIn).data = DataFive
    /\ decOut.kind = "Ok"
    /\ IsSome(decOut.val)
    /\ Unwrap(decOut.val).balance = 5
    /\ Unwrap(decOut.val).owner = Authority

----------------------------------------------------------------------------
\* C24  The cache only ever holds committed data.  A step that writes a cache
\* entry is either the cache write of a flush, made when the flush's sink
\* transaction has committed (the sink holds the batch's last state for every
\* address of the batch) and writing states of that batch, or the
\* repopulation of a reader, writing the row it read from the sink.  So in
\* every state an address with a cache entry has a row in the sink, the
\* entry's state was decoded from an update handed to process_batch, it lies
\* under its own address, and it is no later a write than the sink's row.  A
\* flush whose database write fails changes neither the sink nor the cache.
C24_Held ==
    \A k \in AddrStrs :
       IsSome(cache[cache_key(k)]) =>
          LET state == from_json(Unwrap(cache[cache_key(k)])).vault_state
          IN /\ to_string(state.vault_address) = k
             /\ IsSome(sink[k])
             /\ as_i64(state.write_version) <= Unwrap(sink[k]).write_version
             /\ \E u \in HandedUpdates : DecodedFrom(state, u)

C24_WriteStep ==
    /\ \A k \in AddrStrs :
          (cache'[cache_key(k)] # cache[cache_key(k)] /\ IsSome(cache'[cache_key(k)])) =>
             LET state == from_json(Unwrap(cache'[cache_key(k)])).vault_state
             IN \/ /\ bpc = "cache"
                   /\ sink' = sink
                   /\ \E i \in DOMAIN vault_states : vault_states[i] = state
                   /\ \E j \in DOMAIN vault_states :
                         /\ sink[k] = Some(RowOf(vault_states[j]))
                         /\ \A l \in (j + 1)..Len(vault_states) :
                               to_string(vault_states[l].vault_address) # k
                \/ /\ rpc = "cache_set"
                   /\ rrow = Some(state)
    /\ (rpc # "cache_set" /\ rpc' = "cache_set") =>
          rrow' = db_get_vault_state(sink, Unwrap(raddr))
    /\ (bpc = "db" /\ ReturnStep("Err")) =>
          /\ cache' = cache
          /\ sink' = sink

----------------------------------------------------------------------------
\* C25  Cache coherence under concurrent reads (as claimed): while no
\* operation fails, whenever no read and no flush is in progress, every
\* unexpired cache entry equals the sink's current row for its address.
C25_CacheCoherent ==
    (rpc = "idle" /\ bpc = "select") =>
       \A k \in AddrStrs :
          IsSome(CacheLookup(cache, k, now)) =>
             CacheLookup(cache, k, now) = db_get_vault_state(sink, k)

----------------------------------------------------------------------------
\* C26  No loss or duplication while running.  With the channel open and the
\* batcher task and the timer scheduled, every update of the tracked program
\* that is in the channel is eventually in a batch handed to process_batch;
\* and no update is at more than one place of the handed batches.
TrackedUpdates ==
    UNION {{u \in Updates(wv) : u.owner = VaultProgram} : wv \in 1..MaxCalls}

C26_Once ==
    \A u \in TrackedUpdates :
       Cardinality({p \in {<<i, j>> : i \in DOMAIN handed, j \in 1..batch_size} :
                      p[2] <= Len(handed[p[1]]) /\ handed[p[1]][p[2]] = u}) <= 1

\* C26: every accepted update is eventually handed to process_batch, in one batch only
C26_NoLossNoDuplication ==
    /\ [](C26_Once)
    /\ \A u \in TrackedUpdates : (u \in Range(chan)) ~> (u \in HandedUpdates)

\* every call was an update of the tracked program; all of them have been
\* handed over, in a full batch and a partial one, and nothing is pending
C26_Witness ==
    /\ calls = MaxCalls
    /\ chan = <<>> /\ batch = <<>> /\ bpc = "select"
    /\ Len(Flatten(handed)) = MaxCalls
    /\ Len(handed) = 2
    /\ {Len(handed[1]), Len(handed[2])} = {batch_size, 1}

----------------------------------------------------------------------------
\* C27  Duplicate addresses in one batch.  When a flush whose batch holds
\* several states of one address returns Ok after its cache write, the sink's
\* row for the address is the row of the last of them, the cache entry is the
\* entry of the last of them, a read of the row gives the cached state, and
\* no other key of either store holds a record of the address.
C27_FlushStep ==
    (bpc = "cache" /\ bpc' = "select" /\ flushRes' = "Ok") =>
       \A k \in AddrStrs :
          LET idx == {i \in DOMAIN vault_states : to_string(vault_states[i].vault_address) = k}
          IN Cardinality(idx) >= 2 =>
                LET last == vault_states[CHOOSE j \in idx : \A i \in idx : i <= j]
                IN /\ sink'[k] = Some(RowOf(last))
                   /\ IsSome(cache'[cache_key(k)])
                   /\ from_json(Unwrap(cache'[cache_key(k)])).vault_state = last
                   /\ db_get_vault_state(sink', k) = Some(last)
                   /\ \A o \in AddrStrs \ {k} :
                         /\ IsSome(sink'[o]) => Unwrap(sink'[o]).vault_address # k
                         /\ IsSome(cache'[cache_key(o)]) =>
                               to_string(from_json(Unwrap(cache'[cache_key(o)])).vault_state.vault_address) # k

\* C27: after a successful flush of a batch with several updates of one
\* address, both stores hold the last one's state, once
C27_DuplicateAddresses == [][C27_FlushStep]_vars

\* a batch of two decodable writes of vault A was flushed with success: the
\* row and the cache entry are the second write's
C27_Witness ==
    /\ cacheEnabled
    /\ Len(handed) = 1 /\ Len(handed[1]) = 2
    /\ \A i \in 1..2 : handed[1][i].pubkey = VaultA /\ Decodable(handed[1][i])
    /\ bpc = "select" /\ flushRes = "Ok"
    /\ Unwrap(sink[to_string(VaultA)]).write_version = 2
    /\ IsSome(cache[cache_key(to_string(VaultA))])
    /\ from_json(Unwrap(cache[cache_key(to_string(VaultA))])).vault_state.write_version = 2

====
